---- MODULE Spec2Model ----
(***************************************************************************)
(* PedalBuild: component inventory and circuit BOM services over one       *)
(* SQLite store (src/src/backend/services).                                *)
(*                                                                         *)
(* Text is modelled as a sequence of tokens.  A token is one character,    *)
(* except that an enumerated type name, a CSV category and the fixed CSV   *)
(* header are single tokens.  An optional (nullable) column is <<>> for    *)
(* NULL and <<s>> for the text s.                                          *)
(***************************************************************************)
EXTENDS Integers, Sequences, FiniteSets, TLC

VARIABLES
    components,   \* table components, in rowid (insertion) order
    circuit_bom,  \* table circuit_bom, in rowid (insertion) order
    result,       \* what the last service call returned or raised
    calls,        \* number of update_quantity calls made so far
    ledger,       \* per components row: initial stock plus the deltas applied
    pc,           \* concurrent caller -> position in its request
    seen,         \* concurrent caller -> stock it read before its update
    req,          \* concurrent caller -> component id and delta of its update
    writer,       \* caller holding the store's write lock, 0 when free
    pending,      \* concurrent caller -> table it has written, not yet committed
    reply         \* concurrent caller -> what its request returned

vars == <<components, circuit_bom, result, calls, ledger,
          pc, seen, req, writer, pending, reply>>

(***************************************************************************)
(* Bounds of the model.                                                    *)
(***************************************************************************)
MaxComponents == 2    \* rows in components
MaxBom == 2           \* rows in circuit_bom
MaxCalls == 2         \* update_quantity calls in one sequential run
MaxDelta == 2         \* magnitude of a quantity delta
NumCallers == 2       \* concurrent callers of update_quantity

(***************************************************************************)
(* Text.                                                                   *)
(***************************************************************************)
Null == <<>>
Some(s) == <<s>>
IsNull(o) == o = <<>>

NL == "\n"

\* Byte value of a token's first character: the order of SQLite's BINARY
\* collation and of Python's str comparison.
Code(t) ==
    CASE t = NL -> 10
      [] t = " " -> 32
      [] t = "\"" -> 34
      [] t = "%" -> 37
      [] t = "," -> 44
      [] t = "-" -> 45
      [] t = "." -> 46
      [] t = "/" -> 47
      [] t = "0" -> 48
      [] t = "1" -> 49
      [] t = "2" -> 50
      [] t = "3" -> 51
      [] t = "4" -> 52
      [] t = "5" -> 53
      [] t = "6" -> 54
      [] t = "7" -> 55
      [] t = "8" -> 56
      [] t = "9" -> 57
      [] t = "C" -> 67
      [] t = "F" -> 70
      [] t = "H" -> 72
      [] t = "K" -> 75
      [] t = "M" -> 77
      [] t = "R" -> 82
      [] t = "S" -> 83
      [] t = "T" -> 84
      [] t = "_" -> 95
      [] t = "bogus" -> 98
      [] t = "capacitor" -> 99
      [] t = "c" -> 99
      [] t = "f" -> 102
      [] t = "h" -> 104
      [] t = "k" -> 107
      [] t = "m" -> 109
      [] t = "n" -> 110
      [] t = "other" -> 111
      [] t = "resistor" -> 114
      [] t = "r" -> 114
      [] t = "s" -> 115
      [] t = "t" -> 116
      [] OTHER -> 127

\* str.lower() on one token; also the case folding of SQLite's LIKE.
Lower(t) ==
    CASE t = "C" -> "c"
      [] t = "F" -> "f"
      [] t = "H" -> "h"
      [] t = "K" -> "k"
      [] t = "M" -> "m"
      [] t = "R" -> "r"
      [] t = "S" -> "s"
      [] t = "T" -> "t"
      [] OTHER -> t

RECURSIVE StrLess(_, _)
StrLess(a, b) ==
    IF b = <<>> THEN FALSE
    ELSE IF a = <<>> THEN TRUE
    ELSE IF Code(a[1]) # Code(b[1]) THEN Code(a[1]) < Code(b[1])
    ELSE StrLess(Tail(a), Tail(b))

\* SQLite's LIKE: % is any run of characters, _ is any one character, every
\* other character matches itself without regard to ASCII case.
RECURSIVE LikeMatch(_, _)
LikeMatch(p, s) ==
    IF p = <<>> THEN s = <<>>
    ELSE IF p[1] = "%"
         THEN LikeMatch(Tail(p), s) \/ (s # <<>> /\ LikeMatch(p, Tail(s)))
    ELSE IF s = <<>> THEN FALSE
    ELSE IF p[1] = "_" THEN LikeMatch(Tail(p), Tail(s))
    ELSE Lower(p[1]) = Lower(s[1]) /\ LikeMatch(Tail(p), Tail(s))

\* LIKE on a nullable column: NULL LIKE p is not true.
LikeOpt(o, p) == ~IsNull(o) /\ LikeMatch(p, o[1])

\* The rows of s in ascending order of Less, rows that compare equal staying
\* in the order of s (the order in which the table scan delivers them).
StableSort(s, Less(_, _)) ==
    LET n == Len(s)
        pos(i) == 1 + Cardinality({j \in 1..n :
                        \/ Less(s[j], s[i])
                        \/ (~Less(s[i], s[j]) /\ j < i)})
    IN [p \in 1..n |-> s[CHOOSE i \in 1..n : pos(i) = p]]

Range(s) == {s[i] : i \in 1..Len(s)}

RECURSIVE Join(_, _)
\* sep.join(parts)
Join(parts, sep) ==
    IF parts = <<>> THEN <<>>
    ELSE IF Len(parts) = 1 THEN parts[1]
    ELSE parts[1] \o <<sep>> \o Join(Tail(parts), sep)

RECURSIVE Split(_, _)
\* s.split(sep): always at least one piece
Split(s, sep) ==
    IF \A i \in 1..Len(s) : s[i] # sep THEN <<s>>
    ELSE LET k == CHOOSE i \in 1..Len(s) :
                      s[i] = sep /\ \A j \in 1..(i - 1) : s[j] # sep
         IN <<SubSeq(s, 1, k - 1)>> \o Split(SubSeq(s, k + 1, Len(s)), sep)

RECURSIVE Count(_, _)
\* s.count(t)
Count(s, t) ==
    IF s = <<>> THEN 0
    ELSE (IF s[1] = t THEN 1 ELSE 0) + Count(Tail(s), t)

Digit(d) ==
    CASE d = 0 -> "0" [] d = 1 -> "1" [] d = 2 -> "2" [] d = 3 -> "3"
      [] d = 4 -> "4" [] d = 5 -> "5" [] d = 6 -> "6" [] d = 7 -> "7"
      [] d = 8 -> "8" [] d = 9 -> "9"

RECURSIVE Str(_)
\* str(n) of an integer
Str(n) ==
    IF n < 0 THEN <<"-">> \o Str(0 - n)
    ELSE IF n < 10 THEN <<Digit(n)>>
    ELSE Str(n \div 10) \o <<Digit(n % 10)>>

RECURSIVE StripLeft(_)
StripLeft(s) == IF s # <<>> /\ s[1] = " " THEN StripLeft(Tail(s)) ELSE s

RECURSIVE StripRight(_)
StripRight(s) ==
    IF s # <<>> /\ s[Len(s)] = " " THEN StripRight(SubSeq(s, 1, Len(s) - 1)) ELSE s

\* str.strip()
Strip(s) == StripRight(StripLeft(s))

(***************************************************************************)
(* The CSV importer (services/excel_importer.py).                          *)
(***************************************************************************)
\* category.strip().upper() on a category token
CategoryKey(category) ==
    CASE category = "resistor " -> "RESISTOR"
      [] category = "Capacitor" -> "CAPACITOR"
      [] OTHER -> category

normalize_type(category) ==
    LET normalized == CategoryKey(category)
    IN CASE normalized \in {"RESISTOR", "RESISTORS"} -> "resistor"
         [] normalized \in {"CAPACITOR", "CAPACITORS"} -> "capacitor"
         [] normalized \in {"IC", "ICS"} -> "ic"
         [] normalized \in {"TRANSISTOR", "TRANSISTORS"} -> "transistor"
         [] normalized \in {"DIODE", "DIODES"} -> "diode"
         [] normalized \in {"POT", "POTS", "POTENTIOMETER", "POTENTIOMETERS"}
                -> "potentiometer"
         [] normalized = "HARDWARE" -> "hardware"
         [] normalized = "SWITCH" -> "switch"
         [] normalized = "LED" -> "led"
         [] normalized = "JACK" -> "jack"
         [] OTHER -> "other"

\* clean(s): lower case, then ' ', '/', '-' and '.' replaced by '_'
clean(s) ==
    [i \in 1..Len(s) |->
        IF Lower(s[i]) \in {" ", "/", "-", "."} THEN "_" ELSE Lower(s[i])]

PackageLimit == 20

generate_component_id(comp_type, value, package) ==
    LET p1 == <<clean(<<comp_type>>)>>
        p2 == IF value # <<>> THEN Append(p1, clean(value)) ELSE p1
        p3 == IF package # <<>>
              THEN Append(p2, clean(SubSeq(package, 1,
                       IF Len(package) < PackageLimit THEN Len(package)
                       ELSE PackageLimit)))
              ELSE p2
    IN Join(p3, "_")

create_component_name(subtype, value) ==
    IF subtype # <<>> /\ value # <<>> THEN Strip(subtype) \o <<" ">> \o Strip(value)
    ELSE IF subtype # <<>> THEN Strip(subtype)
    ELSE IF value # <<>> THEN Strip(value)
    ELSE <<"Unknown Component">>

\* A CSV row that parse_csv kept: Category, HumanReadableValue and Quantity
\* are present; SubType, Footprint and MfrPartNumber are optional.
transform_row(row) ==
    LET comp_type == normalize_type(row.Category)
        subtype == IF IsNull(row.SubType) THEN <<>> ELSE row.SubType[1]
        value == row.HumanReadableValue
        package == IF IsNull(row.Footprint) THEN <<>> ELSE row.Footprint[1]
    IN [id |-> generate_component_id(comp_type, value, package),
        type |-> comp_type,
        name |-> create_component_name(subtype, value),
        value |-> Some(value),
        package |-> IF package # <<>> THEN Some(package) ELSE Null,
        part_number |-> row.MfrPartNumber,
        quantity_in_stock |-> row.Quantity,
        minimum_quantity |-> row.ReorderLevel]

HasId(table, id) == \E i \in 1..Len(table) : table[i].id = id

RECURSIVE ImportLoopRestock(_, _, _, _)
\* Variant: a row whose id exists adds its quantity to the stored row.
ImportLoopRestock(comps, table, inserted, skipped) ==
    IF comps = <<>>
    THEN [table |-> table, inserted |-> inserted, skipped |-> skipped]
    ELSE IF \E i \in 1..Len(table) : table[i].id = comps[1].id
         THEN ImportLoopRestock(Tail(comps),
                  [i \in 1..Len(table) |->
                      IF table[i].id = comps[1].id
                      THEN [table[i] EXCEPT !.quantity_in_stock =
                               @ + comps[1].quantity_in_stock]
                      ELSE table[i]],
                  inserted, skipped + 1)
         ELSE ImportLoopRestock(Tail(comps), Append(table, comps[1]),
                                inserted + 1, skipped)

RECURSIVE ImportLoopSilent(_, _, _, _)
\* Variant: a row whose id exists is passed over without being counted.
ImportLoopSilent(comps, table, inserted, skipped) ==
    IF comps = <<>>
    THEN [table |-> table, inserted |-> inserted, skipped |-> skipped]
    ELSE IF \E i \in 1..Len(table) : table[i].id = comps[1].id
         THEN ImportLoopSilent(Tail(comps), table, inserted, skipped)
         ELSE ImportLoopSilent(Tail(comps), Append(table, comps[1]),
                               inserted + 1, skipped)

RECURSIVE ImportLoop(_, _, _, _)
\* the loop over the transformed rows: SELECT id, then skip or INSERT
ImportLoop(comps, table, inserted, skipped) ==
    IF comps = <<>>
    THEN [table |-> table, inserted |-> inserted, skipped |-> skipped]
    ELSE IF HasId(table, comps[1].id)
         THEN ImportLoop(Tail(comps), table, inserted, skipped + 1)
         ELSE ImportLoop(Tail(comps), Append(table, comps[1]), inserted + 1, skipped)

import_components(table, file, preview) ==
    LET comps == [i \in 1..Len(file) |-> transform_row(file[i])]
        done == ImportLoop(comps, table, 0, 0)
    IN IF preview
       THEN [table |-> table,
             ret |-> [preview |-> TRUE, total_components |-> Len(comps),
                      inserted |-> 0, skipped |-> 0]]
       ELSE [table |-> done.table,
             ret |-> [preview |-> FALSE, total_components |-> Len(comps),
                      inserted |-> done.inserted, skipped |-> done.skipped]]

\* The rows a file may hold.
RowMF10k ==
    [Category |-> "RESISTOR", SubType |-> Some(<<"M", "F">>),
     HumanReadableValue |-> <<"1", "0", "k">>, Footprint |-> Some(<<"T", "H">>),
     MfrPartNumber |-> Null, Quantity |-> 2, ReorderLevel |-> 1]
RowSM10k ==
    [Category |-> "resistor ", SubType |-> Null,
     HumanReadableValue |-> <<"1", "0", "k">>, Footprint |-> Some(<<"S", "M">>),
     MfrPartNumber |-> Null, Quantity |-> 0, ReorderLevel |-> 0]
Row110k ==
    [Category |-> "RESISTOR", SubType |-> Some(<<"C", "F">>),
     HumanReadableValue |-> <<"1", "1", "0", "k">>, Footprint |-> Some(<<"T", "H">>),
     MfrPartNumber |-> Some(<<"R", "1">>), Quantity |-> 1, ReorderLevel |-> 0]
RowCap10k ==
    [Category |-> "Capacitor", SubType |-> Null,
     HumanReadableValue |-> <<"1", "0", "k">>, Footprint |-> Null,
     MfrPartNumber |-> Some(<<"C", "F">>), Quantity |-> 3, ReorderLevel |-> 0]

CsvRows == {RowMF10k, RowSM10k, Row110k, RowCap10k}

\* The files an import may be given: every one-row file, and files of two
\* rows with distinct ids, with one id twice, and with ids of both kinds.
Files ==
    {<<r>> : r \in CsvRows}
        \cup {<<RowSM10k, RowMF10k>>, <<RowMF10k, RowMF10k>>,
              <<RowCap10k, Row110k>>}

(***************************************************************************)
(* ComponentInventoryService (services/component_inventory.py).            *)
(***************************************************************************)
\* Variant: the CASE expression without its name tier.
SearchTierValueOnly(c, query) ==
    IF ~IsNull(c.value) /\ c.value[1] = query THEN 1
    ELSE IF LikeOpt(c.value, query \o <<"%">>) THEN 2
    ELSE 4

\* The CASE expression of the ORDER BY clause.
SearchTier(c, query) ==
    IF ~IsNull(c.value) /\ c.value[1] = query THEN 1
    ELSE IF LikeOpt(c.value, query \o <<"%">>) THEN 2
    ELSE IF LikeMatch(query \o <<"%">>, c.name) THEN 3
    ELSE 4

OptText(o) == IF IsNull(o) THEN <<>> ELSE o[1]

\* ORDER BY type, value
TypeValueLess(a, b) ==
    \/ StrLess(<<a.type>>, <<b.type>>)
    \/ a.type = b.type /\ StrLess(OptText(a.value), OptText(b.value))

search_components(table, query) ==
    LET pattern == <<"%">> \o query \o <<"%">>
        Hit(c) == \/ LikeOpt(c.value, pattern)
                  \/ LikeMatch(pattern, c.name)
                  \/ LikeOpt(c.part_number, pattern)
        Less(a, b) == \/ SearchTier(a, query) < SearchTier(b, query)
                      \/ SearchTier(a, query) = SearchTier(b, query)
                         /\ TypeValueLess(a, b)
    IN StableSort(SelectSeq(table, Hit), Less)

\* SELECT * FROM components [WHERE type = ?] ORDER BY type, value
list_components(table, comp_type) ==
    IF IsNull(comp_type)
    THEN StableSort(table, TypeValueLess)
    ELSE StableSort(SelectSeq(table, LAMBDA c : c.type = comp_type[1]),
                    TypeValueLess)

\* Variant: a component counts as low only below its minimum.
IsLowStockBelow(c) == c.quantity_in_stock < c.minimum_quantity

\* quantity_in_stock <= minimum_quantity
IsLowStock(c) == c.quantity_in_stock <= c.minimum_quantity

\* SELECT * FROM components WHERE quantity_in_stock <= minimum_quantity
\* ORDER BY type, value
get_low_stock(table) == StableSort(SelectSeq(table, IsLowStock), TypeValueLess)

RECURSIVE SumStock(_)
\* SUM(quantity_in_stock) over the rows of a group
SumStock(rows) ==
    IF rows = <<>> THEN 0
    ELSE rows[1].quantity_in_stock + SumStock(Tail(rows))

\* the row the inventory statistics query yields for the rows of one type
InventoryGroup(rows) ==
    [type |-> rows[1].type,
     type_count |-> Len(rows),
     total_units |-> SumStock(rows),
     low_stock_count |-> Len(SelectSeq(rows, LAMBDA c : c.quantity_in_stock <= c.minimum_quantity)),
     out_of_stock_count |-> Len(SelectSeq(rows, LAMBDA c : c.quantity_in_stock = 0))]

\* the types of the table in ascending order (GROUP BY type)
TypeKeys(types) ==
    [k \in 1..Cardinality(types) |->
        CHOOSE t \in types :
            Cardinality({u \in types : StrLess(<<u>>, <<t>>)}) = k - 1]

\* SELECT type, COUNT(*), SUM(...) ... FROM components GROUP BY type
InventoryQuery(table) ==
    [k \in 1..Cardinality({table[i].type : i \in 1..Len(table)}) |->
        InventoryGroup(SelectSeq(table, LAMBDA c :
            c.type = TypeKeys({table[i].type : i \in 1..Len(table)})[k]))]

RECURSIVE InventoryLoop(_, _)
\* the loop of the inventory's get_statistics over the rows of the query
InventoryLoop(groups, acc) ==
    IF groups = <<>> THEN acc
    ELSE InventoryLoop(Tail(groups),
             [total_types |-> acc.total_types + groups[1].type_count,
              total_units |-> acc.total_units + groups[1].total_units,
              by_type |-> Append(acc.by_type,
                                 [type |-> groups[1].type,
                                  types |-> groups[1].type_count,
                                  units |-> groups[1].total_units]),
              low_stock_count |->
                  acc.low_stock_count + groups[1].low_stock_count,
              out_of_stock_count |->
                  acc.out_of_stock_count + groups[1].out_of_stock_count])

\* ComponentInventoryService.get_statistics
inventory_statistics(table) ==
    InventoryLoop(InventoryQuery(table),
                  [total_types |-> 0, total_units |-> 0, by_type |-> <<>>,
                   low_stock_count |-> 0, out_of_stock_count |-> 0])

get_component(table, component_id) ==
    LET rows == SelectSeq(table, LAMBDA c : c.id = component_id)
    IN IF rows = <<>> THEN Null ELSE Some(rows[1])

\* Variant: a row whose stock the update brings to zero is removed.
update_quantity_purge(table, component_id, d) ==
    [table |-> SelectSeq(
                   [i \in 1..Len(table) |->
                       IF table[i].id = component_id
                       THEN [table[i] EXCEPT !.quantity_in_stock = @ + d]
                       ELSE table[i]],
                   LAMBDA c : c.id # component_id \/ c.quantity_in_stock # 0),
     success |-> \E i \in 1..Len(table) : table[i].id = component_id]

\* Variant: the new stock is clamped at zero.
update_quantity_clamped(table, component_id, d) ==
    [table |-> [i \in 1..Len(table) |->
                   IF table[i].id = component_id
                   THEN [table[i] EXCEPT !.quantity_in_stock =
                            IF @ + d < 0 THEN 0 ELSE @ + d]
                   ELSE table[i]],
     success |-> Cardinality({i \in 1..Len(table) : table[i].id = component_id}) > 0]

\* Variant: an id that has no row gets one (an upsert).
update_quantity_upsert(table, component_id, d) ==
    IF \E i \in 1..Len(table) : table[i].id = component_id
    THEN [table |-> [i \in 1..Len(table) |->
                        IF table[i].id = component_id
                        THEN [table[i] EXCEPT !.quantity_in_stock = @ + d]
                        ELSE table[i]],
          success |-> TRUE]
    ELSE [table |-> Append(table,
                       [id |-> component_id, type |-> "other", name |-> component_id,
                        value |-> Null, package |-> Null, part_number |-> Null,
                        quantity_in_stock |-> d, minimum_quantity |-> 0]),
          success |-> TRUE]

\* UPDATE components SET quantity_in_stock = quantity_in_stock + ? WHERE id = ?
update_quantity(table, component_id, d) ==
    [table |-> [i \in 1..Len(table) |->
                   IF table[i].id = component_id
                   THEN [table[i] EXCEPT !.quantity_in_stock = @ + d]
                   ELSE table[i]],
     success |-> Cardinality({i \in 1..Len(table) : table[i].id = component_id}) > 0]

(***************************************************************************)
(* The update-quantity route (routes/inventory.py).                        *)
(***************************************************************************)
HTTP_OK == 200
HTTP_NOT_FOUND == 404
HTTP_SERVER_ERROR == 500

patch_quantity(table, component_id, d) ==
    LET component == get_component(table, component_id)
        out == update_quantity(table, component_id, d)
        updated_component == get_component(out.table, component_id)
    IN IF IsNull(component)
       THEN [table |-> table, status |-> HTTP_NOT_FOUND, new_quantity |-> 0]
       ELSE IF ~out.success
       THEN [table |-> out.table, status |-> HTTP_SERVER_ERROR, new_quantity |-> 0]
       ELSE [table |-> out.table, status |-> HTTP_OK,
             new_quantity |-> updated_component[1].quantity_in_stock]

\* the values of the ComponentType enumeration (models/types.py)
ComponentTypes ==
    {"resistor", "capacitor", "ic", "transistor", "diode", "potentiometer",
     "switch", "led", "jack", "hardware", "other"}

HTTP_BAD_REQUEST == 400

\* The route's "except Exception" clause: it takes every exception raised in
\* the try block, the HTTPException for a bad type included, and answers 500.
ListExcept(raised_status) == HTTP_SERVER_ERROR

\* GET / with the optional query parameter type (NULL, or one token; the
\* token "" is the empty string)
list_components_route(table, type) ==
    IF ~IsNull(type) /\ type[1] # "" /\ type[1] \notin ComponentTypes
    THEN [status |-> ListExcept(HTTP_BAD_REQUEST), service_called |-> FALSE,
          components |-> <<>>]
    ELSE [status |-> HTTP_OK, service_called |-> TRUE,
          components |->
              list_components(table,
                  IF IsNull(type) \/ type[1] = "" THEN Null ELSE type)]

(***************************************************************************)
(* BOMManagerService (services/bom_manager.py).                            *)
(* confidence_score is held in hundredths (95 is 0.95).                    *)
(***************************************************************************)
\* ORDER BY component_type, component_value
BomLess(a, b) ==
    \/ StrLess(<<a.component_type>>, <<b.component_type>>)
    \/ a.component_type = b.component_type
       /\ StrLess(a.component_value, b.component_value)

\* Variant: the rows of every circuit.
get_bom_unfiltered(bom, circuit_id) == StableSort(bom, BomLess)

get_bom(bom, circuit_id) ==
    StableSort(SelectSeq(bom, LAMBDA r : r.circuit_id = circuit_id), BomLess)

RECURSIVE GroupLoopLatest(_, _)
\* Variant: an item of a type already seen replaces that type's list.
GroupLoopLatest(bom_items, by_type) ==
    IF bom_items = <<>> THEN by_type
    ELSE IF \E k \in 1..Len(by_type) :
                by_type[k].key = bom_items[1].component_type
         THEN GroupLoopLatest(Tail(bom_items),
                  [k \in 1..Len(by_type) |->
                      IF by_type[k].key = bom_items[1].component_type
                      THEN [by_type[k] EXCEPT !.items = <<bom_items[1]>>]
                      ELSE by_type[k]])
         ELSE GroupLoopLatest(Tail(bom_items),
                  Append(by_type, [key |-> bom_items[1].component_type,
                                   items |-> <<bom_items[1]>>]))

RECURSIVE GroupLoop(_, _)
\* get_bom_by_type's loop; the dict by_type is the sequence of its entries in
\* insertion order
GroupLoop(bom_items, by_type) ==
    IF bom_items = <<>> THEN by_type
    ELSE IF \E k \in 1..Len(by_type) :
                by_type[k].key = bom_items[1].component_type
         THEN GroupLoop(Tail(bom_items),
                  [k \in 1..Len(by_type) |->
                      IF by_type[k].key = bom_items[1].component_type
                      THEN [by_type[k] EXCEPT !.items = Append(@, bom_items[1])]
                      ELSE by_type[k]])
         ELSE GroupLoop(Tail(bom_items),
                  Append(by_type, [key |-> bom_items[1].component_type,
                                   items |-> <<bom_items[1]>>]))

get_bom_by_type(bom, circuit_id) == GroupLoop(get_bom(bom, circuit_id), <<>>)

bom_item_id(circuit_id, item) ==
    circuit_id \o <<"_">> \o <<item.component_type>> \o <<"_">>
        \o item.component_value \o <<"_">> \o Str(item.quantity)

\* circuit_bom.id is the table's primary key.
PrimaryKeyTaken(bom, item_id) == HasId(bom, item_id)

\* connections is the number of connections the call opened and has not
\* closed when it returns or raises: conn.close() comes after the INSERT and
\* the commit, outside any try block.
add_bom_item(bom, circuit_id, item) ==
    LET item_id == bom_item_id(circuit_id, item)
        row == [id |-> item_id,
                circuit_id |-> circuit_id,
                component_type |-> item.component_type,
                component_value |-> item.component_value,
                quantity |-> item.quantity,
                reference_designator |-> item.reference_designator,
                is_critical |-> item.is_critical,
                confidence_score |-> item.confidence_score]
    IN IF PrimaryKeyTaken(bom, item_id)
       THEN [bom |-> bom, raised |-> "IntegrityError", success |-> FALSE,
             connections |-> 1]
       ELSE [bom |-> Append(bom, row), raised |-> "", success |-> TRUE,
             connections |-> 0]

\* Variant: stock must exceed the quantity needed.
EnoughStockStrict(in_stock, needed) == in_stock > needed

\* matching[0]['quantity_in_stock'] >= bom_item['quantity']
EnoughStock(in_stock, needed) == in_stock >= needed

\* Variant: an entry for a missing item never names a component.
ValidationEntryBare(bom_item, matching) ==
    IF matching # <<>>
       /\ EnoughStock(matching[1].quantity_in_stock, bom_item.quantity)
    THEN [bom_item |-> bom_item,
          component |-> Some(matching[1]),
          available |-> TRUE,
          quantity_needed |-> bom_item.quantity,
          quantity_available |-> matching[1].quantity_in_stock]
    ELSE [bom_item |-> bom_item,
          component |-> Null,
          available |-> FALSE,
          quantity_needed |-> bom_item.quantity,
          quantity_available |->
              IF matching # <<>> THEN matching[1].quantity_in_stock ELSE 0]

\* the entry validate_bom's loop builds for one BOM item, given the search
\* results of the item's type
ValidationEntry(bom_item, matching) ==
    IF matching # <<>>
       /\ EnoughStock(matching[1].quantity_in_stock, bom_item.quantity)
    THEN [bom_item |-> bom_item,
          component |-> Some(matching[1]),
          available |-> TRUE,
          quantity_needed |-> bom_item.quantity,
          quantity_available |-> matching[1].quantity_in_stock]
    ELSE [bom_item |-> bom_item,
          component |-> IF matching # <<>> THEN Some(matching[1]) ELSE Null,
          available |-> FALSE,
          quantity_needed |-> bom_item.quantity,
          quantity_available |->
              IF matching # <<>> THEN matching[1].quantity_in_stock ELSE 0]

\* search_results filtered to the BOM item's type
MatchingType(search_results, bom_item) ==
    SelectSeq(search_results, LAMBDA c : c.type = bom_item.component_type)

\* the body of validate_bom's loop for one BOM item
ValidateItem(table, bom_item) ==
    ValidationEntry(bom_item,
        MatchingType(search_components(table, bom_item.component_value), bom_item))

\* Variant: the division without the guard for an empty BOM.
CompletenessUnguarded(available_count, total) ==
    IF total # 0
    THEN [raised |-> "", value |-> <<available_count, total>>]
    ELSE [raised |-> "ZeroDivisionError", value |-> <<0, 0>>]

\* available_count / len(bom_items) if bom_items else 0, as a fraction
\* <<numerator, denominator>>; a zero divisor raises ZeroDivisionError.
Completeness(available_count, total) ==
    IF total # 0
    THEN [raised |-> "", value |-> <<available_count, total>>]
    ELSE [raised |-> "", value |-> <<0, 1>>]

\* validate_bom's result, given the entries of its loop in BOM order
ValidationResult(entries) ==
    LET matches == SelectSeq(entries, LAMBDA e : e.available)
        missing == SelectSeq(entries, LAMBDA e : ~e.available)
        completeness == Completeness(Len(matches), Len(entries))
    IN [raised |-> completeness.raised,
        total_items |-> Len(entries),
        available_count |-> Len(matches),
        missing_count |-> Len(missing),
        completeness |-> completeness.value,
        matches |-> matches,
        missing |-> missing]

ValidateItems(table, bom_items) ==
    [i \in 1..Len(bom_items) |-> ValidateItem(table, bom_items[i])]

validate_bom(bom, table, circuit_id) ==
    ValidationResult(ValidateItems(table, get_bom(bom, circuit_id)))

\* Variant: every validated item is put on the shopping list.
ShoppingSourceAll(validation) == validation.matches \o validation.missing

\* the validation entries get_shopping_list turns into shopping items
ShoppingSource(validation) == validation.missing

\* the shopping-list entry of one BOM item
ShoppingItem(b) ==
    [type |-> b.component_type,
     value |-> b.component_value,
     quantity |-> b.quantity,
     references |->
         IF ~IsNull(b.reference_designator) /\ b.reference_designator[1] # <<>>
         THEN Split(b.reference_designator[1], ",")
         ELSE <<>>]

ShoppingList(source) ==
    [i \in 1..Len(source) |-> ShoppingItem(source[i].bom_item)]

ShoppingResult(raised, shopping_list) ==
    [raised |-> raised,
     missing_items |-> shopping_list,
     total_missing |-> Len(shopping_list)]

ShoppingOf(validation) ==
    ShoppingResult(validation.raised, ShoppingList(ShoppingSource(validation)))

get_shopping_list(bom, table, circuit_id) ==
    ShoppingOf(validate_bom(bom, table, circuit_id))

CsvHeader == <<"Type,Value,Quantity,Reference Designators,Critical,Confidence">>

\* f"{confidence_score:.2f}" of a score held in hundredths
Fmt2(score) ==
    Str(score \div 100) \o <<".">>
        \o <<Digit((score \div 10) % 10)>> \o <<Digit(score % 10)>>

CsvLine(item) ==
    <<item.component_type>> \o <<",">>
        \o item.component_value \o <<",">>
        \o Str(item.quantity) \o <<",">>
        \o <<"\"">> \o OptText(item.reference_designator) \o <<"\"">> \o <<",">>
        \o <<IF item.is_critical THEN "Yes" ELSE "No">> \o <<",">>
        \o Fmt2(item.confidence_score)

CsvLines(bom_items) ==
    <<CsvHeader>> \o [i \in 1..Len(bom_items) |-> CsvLine(bom_items[i])]

export_bom_csv(bom, circuit_id) == Join(CsvLines(get_bom(bom, circuit_id)), NL)

\* the bound of "confidence_score < 0.7", in hundredths
LowConfidenceLimit == 70

\* Variant: a score on the bound counts as low.
LowConfidenceInclusive(score) == score <= LowConfidenceLimit

\* confidence_score < 0.7
LowConfidence(score) == score < LowConfidenceLimit

\* the row the statistics query yields for one component_type
StatGroup(rows, type) ==
    [component_type |-> type,
     count |-> Len(SelectSeq(rows, LAMBDA r : r.component_type = type)),
     critical_count |->
         Len(SelectSeq(rows, LAMBDA r : r.component_type = type /\ r.is_critical)),
     low_confidence_count |->
         Len(SelectSeq(rows, LAMBDA r : /\ r.component_type = type
                                        /\ LowConfidence(r.confidence_score)))]

\* the component types of the rows, in ascending order (GROUP BY)
GroupKeys(types) ==
    [k \in 1..Cardinality(types) |->
        CHOOSE t \in types :
            Cardinality({u \in types : StrLess(<<u>>, <<t>>)}) = k - 1]

\* SELECT ... FROM circuit_bom WHERE circuit_id = ? GROUP BY component_type
StatQuery(rows) ==
    [k \in 1..Cardinality({rows[i].component_type : i \in 1..Len(rows)}) |->
        StatGroup(rows,
            GroupKeys({rows[i].component_type : i \in 1..Len(rows)})[k])]

RECURSIVE StatLoop(_, _)
\* get_statistics' loop over the rows of the query
StatLoop(groups, acc) ==
    IF groups = <<>> THEN acc
    ELSE StatLoop(Tail(groups),
             [total_items |-> acc.total_items + groups[1].count,
              by_type |-> Append(acc.by_type,
                                 <<groups[1].component_type, groups[1].count>>),
              critical_count |-> acc.critical_count + groups[1].critical_count,
              low_confidence_count |->
                  acc.low_confidence_count + groups[1].low_confidence_count])

get_statistics(bom, circuit_id) ==
    StatLoop(StatQuery(SelectSeq(bom, LAMBDA r : r.circuit_id = circuit_id)),
             [total_items |-> 0, by_type |-> <<>>, critical_count |-> 0,
              low_confidence_count |-> 0])

(***************************************************************************)
(* The BOM routes (routes/bom.py).                                         *)
(***************************************************************************)
\* what the export route makes of the service's CSV text
ExportResponse(csv_content) ==
    IF csv_content = <<>> \/ Count(csv_content, NL) <= 1
    THEN [status |-> HTTP_NOT_FOUND, content |-> <<>>]
    ELSE [status |-> HTTP_OK, content |-> csv_content]

\* GET /{circuit_id}/export
export_route(bom, circuit_id) == ExportResponse(export_bom_csv(bom, circuit_id))

\* Variant: a quantity of zero passes.
QuantityAcceptedFromZero(quantity) == quantity >= 0

\* AddBOMItemRequest.quantity: Field(gt=0)
QuantityAccepted(quantity) == quantity > 0

\* AddBOMItemRequest.confidence_score: Field(ge=0.0, le=1.0), in hundredths
ConfidenceAccepted(score) == score >= 0 /\ score <= 100

\* the request body passes the validation of AddBOMItemRequest
RequestAccepted(item) ==
    QuantityAccepted(item.quantity) /\ ConfidenceAccepted(item.confidence_score)

\* what the add route makes of the service's outcome
AddResponse(out) ==
    [bom |-> out.bom, accepted |-> TRUE,
     status |-> IF out.raised # "" \/ ~out.success
                THEN HTTP_SERVER_ERROR ELSE HTTP_OK]

\* POST /{circuit_id}/items; a body that fails validation never reaches the
\* route function
post_bom_item(bom, circuit_id, item) ==
    IF RequestAccepted(item)
    THEN AddResponse(add_bom_item(bom, circuit_id, item))
    ELSE [bom |-> bom, accepted |-> FALSE, status |-> 0]

(***************************************************************************)
(* The requests the model draws from.                                      *)
(***************************************************************************)
CircuitIds == {<<"A">>, <<"B">>}

\* a circuit id no add request names
UnknownCircuit == <<"Z">>
QueryCircuits == CircuitIds \cup {UnknownCircuit}

ItemR10kx2 ==
    [component_type |-> "resistor", component_value |-> <<"1", "0", "k">>,
     quantity |-> 2, reference_designator |-> Some(<<"R", "1", ",", "R", "2">>),
     is_critical |-> TRUE, confidence_score |-> 95]
ItemR10kx1 ==
    [component_type |-> "resistor", component_value |-> <<"1", "0", "k">>,
     quantity |-> 1, reference_designator |-> Null,
     is_critical |-> FALSE, confidence_score |-> 70]
ItemCapMultiline ==
    [component_type |-> "capacitor", component_value |-> <<"1", "0", "0", "n", NL>>,
     quantity |-> 3, reference_designator |-> Some(<<"C", "1">>),
     is_critical |-> FALSE, confidence_score |-> 50]

AddRequests == {ItemR10kx2, ItemR10kx1, ItemCapMultiline}

\* The add requests: every item for circuit A, and for circuit B an item that
\* circuit A may hold as well.
AddCalls ==
    {<<<<"A">>, item>> : item \in AddRequests} \cup {<<<<"B">>, ItemR10kx2>>}

ItemQuantityZero ==
    [component_type |-> "resistor", component_value |-> <<"1", "0", "k">>,
     quantity |-> 0, reference_designator |-> Null,
     is_critical |-> FALSE, confidence_score |-> 100]
ItemConfidenceAbove ==
    [component_type |-> "resistor", component_value |-> <<"1", "0", "k">>,
     quantity |-> 3, reference_designator |-> Null,
     is_critical |-> FALSE, confidence_score |-> 101]
ItemConfidenceBelow ==
    [component_type |-> "resistor", component_value |-> <<"1", "0", "k">>,
     quantity |-> 3, reference_designator |-> Null,
     is_critical |-> FALSE, confidence_score |-> 0 - 1]

\* a body whose component_type is not a value of ComponentType
ItemTypeBogus ==
    [component_type |-> "bogus", component_value |-> <<"1", "0", "k">>,
     quantity |-> 1, reference_designator |-> Null,
     is_critical |-> FALSE, confidence_score |-> 100]

\* The bodies posted to the add route: one on the lower bound of quantity,
\* bodies outside the bounds of quantity and confidence_score, and a body with
\* an unknown component_type.
PostRequests ==
    {ItemR10kx1, ItemQuantityZero, ItemConfidenceAbove, ItemConfidenceBelow,
     ItemTypeBogus}

Callers == 1..NumCallers
Deltas == (0 - MaxDelta)..MaxDelta
UnknownId == <<"resistor", "_", "9">>

NoResult == [op |-> "none"]

(***************************************************************************)
(* Sequential service calls on the store.                                  *)
(***************************************************************************)
\* One call at a time: a call starts once the caller has taken the result of
\* the call before it.
Sequential ==
    /\ result = NoResult
    /\ UNCHANGED <<calls, ledger, pc, seen, req, writer, pending, reply>>

ImportComponents ==
    \E file \in Files, preview \in BOOLEAN :
        LET out == import_components(components, file, preview)
        IN /\ Len(out.table) <= MaxComponents
           /\ components' = out.table
           /\ result' = [op |-> "import_components", file |-> file,
                         ret |-> out.ret]
           /\ UNCHANGED circuit_bom
           /\ Sequential

\* The caller of an import that wrote to the store runs it again on the same
\* file.
ImportAgain ==
    /\ result.op = "import_components"
    /\ ~result.ret.preview
    /\ LET out == import_components(components, result.file, FALSE)
       IN /\ components' = out.table
          /\ result' = [op |-> "import_again", file |-> result.file,
                        first |-> result.ret, ret |-> out.ret]
    /\ UNCHANGED <<circuit_bom, calls, ledger, pc, seen, req, writer,
                   pending, reply>>

AddBomItem ==
    \E call \in AddCalls :
        LET circuit_id == call[1]
            item == call[2]
            out == add_bom_item(circuit_bom, circuit_id, item)
        IN /\ Len(out.bom) <= MaxBom
           /\ circuit_bom' = out.bom
           /\ result' = [op |-> "add_bom_item", circuit_id |-> circuit_id,
                         item |-> item, raised |-> out.raised,
                         ret |-> out.success,
                         connections |-> out.connections]
           /\ UNCHANGED components
           /\ Sequential

ValidateBom ==
    \E circuit_id \in QueryCircuits :
        LET out == validate_bom(circuit_bom, components, circuit_id)
        IN /\ result' = [op |-> "validate_bom", circuit_id |-> circuit_id,
                         raised |-> out.raised, ret |-> out]
           /\ UNCHANGED <<components, circuit_bom>>
           /\ Sequential

GetShoppingList ==
    \E circuit_id \in QueryCircuits :
        LET out == get_shopping_list(circuit_bom, components, circuit_id)
        IN /\ result' = [op |-> "get_shopping_list", circuit_id |-> circuit_id,
                         raised |-> out.raised, ret |-> out]
           /\ UNCHANGED <<components, circuit_bom>>
           /\ Sequential

ExportBomCsv ==
    \E circuit_id \in QueryCircuits :
        /\ result' = [op |-> "export_bom_csv", circuit_id |-> circuit_id,
                      ret |-> export_bom_csv(circuit_bom, circuit_id)]
        /\ UNCHANGED <<components, circuit_bom>>
        /\ Sequential

PostBomItem ==
    \E item \in PostRequests :
        LET out == post_bom_item(circuit_bom, <<"A">>, item)
        IN /\ Len(out.bom) <= MaxBom
           /\ circuit_bom' = out.bom
           /\ result' = [op |-> "post_bom_item", circuit_id |-> <<"A">>,
                         item |-> item, accepted |-> out.accepted,
                         status |-> out.status]
           /\ UNCHANGED components
           /\ Sequential

GetBom ==
    \E circuit_id \in QueryCircuits :
        /\ result' = [op |-> "get_bom", circuit_id |-> circuit_id,
                      ret |-> get_bom(circuit_bom, circuit_id)]
        /\ UNCHANGED <<components, circuit_bom>>
        /\ Sequential

GetBomByType ==
    \E circuit_id \in QueryCircuits :
        /\ result' = [op |-> "get_bom_by_type", circuit_id |-> circuit_id,
                      ret |-> get_bom_by_type(circuit_bom, circuit_id)]
        /\ UNCHANGED <<components, circuit_bom>>
        /\ Sequential

GetStatistics ==
    \E circuit_id \in QueryCircuits :
        /\ result' = [op |-> "get_statistics", circuit_id |-> circuit_id,
                      ret |-> get_statistics(circuit_bom, circuit_id)]
        /\ UNCHANGED <<components, circuit_bom>>
        /\ Sequential

ExportRoute ==
    \E circuit_id \in QueryCircuits :
        LET out == export_route(circuit_bom, circuit_id)
        IN /\ result' = [op |-> "export_route", circuit_id |-> circuit_id,
                         status |-> out.status, content |-> out.content]
           /\ UNCHANGED <<components, circuit_bom>>
           /\ Sequential

\* The caller takes the result of its call.
Return ==
    /\ result # NoResult
    /\ result' = NoResult
    /\ UNCHANGED <<components, circuit_bom, calls, ledger,
                   pc, seen, req, writer, pending, reply>>

RECURSIVE ImportedTables(_)
\* the tables that at most n imports into an empty store leave behind
ImportedTables(n) ==
    IF n = 0 THEN {<<>>}
    ELSE LET before == ImportedTables(n - 1)
         IN before \cup
            {t \in {import_components(b, f, FALSE).table : b \in before, f \in Files} :
                Len(t) <= MaxComponents}

Inventories == ImportedTables(MaxComponents)

IdleCallers ==
    /\ pc = [p \in Callers |-> "idle"]
    /\ seen = [p \in Callers |-> 0]
    /\ req = [p \in Callers |-> [id |-> <<>>, delta |-> 0]]
    /\ writer = 0
    /\ pending = [p \in Callers |-> [table |-> <<>>, success |-> FALSE]]
    /\ reply = [p \in Callers |-> NoResult]

\* A store with an imported inventory and no BOM yet.
Init ==
    /\ components \in Inventories
    /\ circuit_bom = <<>>
    /\ result = NoResult
    /\ calls = 0
    /\ ledger = <<>>
    /\ IdleCallers

(***************************************************************************)
(* Quantity updates, one call at a time.                                   *)
(***************************************************************************)
ComponentIds(table) == {table[i].id : i \in 1..Len(table)}

StockOf(table, id) ==
    table[CHOOSE i \in 1..Len(table) : table[i].id = id].quantity_in_stock

\* the ledger after a delta has been applied to the rows with this id
Booked(id, d) ==
    [i \in 1..Len(ledger) |->
        IF components[i].id = id THEN ledger[i] + d ELSE ledger[i]]

QuantityFrame ==
    /\ result = NoResult
    /\ calls < MaxCalls
    /\ calls' = calls + 1
    /\ UNCHANGED <<circuit_bom, pc, seen, req, writer, pending, reply>>

UpdateQuantity ==
    \E id \in ComponentIds(components) \cup {UnknownId}, d \in Deltas :
        LET out == update_quantity(components, id, d)
        IN /\ components' = out.table
           /\ result' = [op |-> "update_quantity", component_id |-> id,
                         delta |-> d, raised |-> "", ret |-> out.success]
           /\ ledger' = Booked(id, d)
           /\ QuantityFrame

PatchQuantity ==
    \E id \in ComponentIds(components) \cup {UnknownId}, d \in Deltas :
        LET out == patch_quantity(components, id, d)
        IN /\ components' = out.table
           /\ result' = [op |-> "patch_quantity", component_id |-> id,
                         delta |-> d, status |-> out.status,
                         new_quantity |-> out.new_quantity]
           /\ ledger' = Booked(id, d)
           /\ QuantityFrame

GetLowStock ==
    /\ result' = [op |-> "get_low_stock", ret |-> get_low_stock(components)]
    /\ UNCHANGED <<components, circuit_bom>>
    /\ Sequential

InventoryStatistics ==
    /\ result' = [op |-> "inventory_statistics",
                  ret |-> inventory_statistics(components)]
    /\ UNCHANGED <<components, circuit_bom>>
    /\ Sequential

InitInv ==
    /\ components \in Inventories
    /\ circuit_bom = <<>>
    /\ result = NoResult
    /\ calls = 0
    /\ ledger = [i \in 1..Len(components) |-> components[i].quantity_in_stock]
    /\ IdleCallers

NextInv ==
    \/ UpdateQuantity
    \/ PatchQuantity
    \/ GetLowStock
    \/ InventoryStatistics
    \/ Return

SpecInv == InitInv /\ [][NextInv]_vars

(***************************************************************************)
(* Imports into the inventory.                                             *)
(***************************************************************************)
NextImport ==
    \/ ImportComponents
    \/ ImportAgain
    \/ Return

SpecImport == Init /\ [][NextImport]_vars

(***************************************************************************)
(* Queries on the inventory.                                               *)
(***************************************************************************)
\* the type filters a list request may carry
TypeFilters ==
    {Null, Some(""), Some("resistor"), Some("capacitor"), Some("bogus"),
     Some("Resistor")}

\* the search queries: a value, a text that starts one component's name and
\* is another's part number, a part number, and a text holding a LIKE wildcard
Queries ==
    {<<"1", "0", "k">>, <<"C", "F">>, <<"R", "1">>, <<"_", "1", "0", "k">>}

ListComponents ==
    \E type \in TypeFilters :
        LET out == list_components_route(components, type)
        IN /\ result' = [op |-> "list_components_route", type |-> type,
                         status |-> out.status,
                         service_called |-> out.service_called,
                         components |-> out.components]
           /\ UNCHANGED <<components, circuit_bom>>
           /\ Sequential

SearchComponents ==
    \E query \in Queries :
        /\ result' = [op |-> "search_components", query |-> query,
                      ret |-> search_components(components, query)]
        /\ UNCHANGED <<components, circuit_bom>>
        /\ Sequential

GetComponent ==
    \E id \in ComponentIds(components) \cup {UnknownId} :
        /\ result' = [op |-> "get_component", component_id |-> id,
                      ret |-> get_component(components, id)]
        /\ UNCHANGED <<components, circuit_bom>>
        /\ Sequential

NextQuery ==
    \/ ListComponents
    \/ SearchComponents
    \/ Return

SpecQuery == Init /\ [][NextQuery]_vars

(***************************************************************************)
(* Quantity updates by concurrent callers.  Each caller reads a            *)
(* component's stock (GET), picks a delta that the stock it read can       *)
(* absorb, and sends its update (PATCH); the route's statements of         *)
(* different callers interleave.  SQLite lets one connection write at a    *)
(* time: an UPDATE waits for the write lock and holds it until its commit; *)
(* readers see the committed table.                                        *)
(***************************************************************************)
ConcInventory == import_components(<<>>, <<RowCap10k, Row110k>>, FALSE).table

At(p, where) == pc[p] = where
Goto(p, where) == pc' = [pc EXCEPT ![p] = where]

\* GET /{component_id}, then the caller's choice of delta
ClientRead(p) ==
    /\ At(p, "idle")
    /\ \E id \in ComponentIds(components), d \in Deltas :
          LET component == get_component(components, id)
          IN /\ component[1].quantity_in_stock + d >= 0
             /\ seen' = [seen EXCEPT ![p] = component[1].quantity_in_stock]
             /\ req' = [req EXCEPT ![p] = [id |-> id, delta |-> d]]
    /\ Goto(p, "read")
    /\ UNCHANGED <<components, circuit_bom, result, calls, ledger,
                   writer, pending, reply>>

\* the route's existence check
PatchCheck(p) ==
    /\ At(p, "read")
    /\ IF IsNull(get_component(components, req[p].id))
       THEN /\ reply' = [reply EXCEPT ![p] =
                    [op |-> "patch_quantity", status |-> HTTP_NOT_FOUND,
                     new_quantity |-> 0]]
            /\ Goto(p, "done")
       ELSE /\ Goto(p, "checked")
            /\ UNCHANGED reply
    /\ UNCHANGED <<components, circuit_bom, result, calls, ledger,
                   seen, req, writer, pending>>

\* Variant: the new stock is computed from the stock the caller read.
UpdateStatementFromRead(table, p) ==
    [table |-> [i \in 1..Len(table) |->
                   IF table[i].id = req[p].id
                   THEN [table[i] EXCEPT !.quantity_in_stock = seen[p] + req[p].delta]
                   ELSE table[i]],
     success |-> HasId(table, req[p].id)]

\* Variant: the statement refuses to take the stock below zero.
UpdateStatementGuarded(table, p) ==
    [table |-> [i \in 1..Len(table) |->
                   IF table[i].id = req[p].id
                      /\ table[i].quantity_in_stock + req[p].delta >= 0
                   THEN [table[i] EXCEPT !.quantity_in_stock = @ + req[p].delta]
                   ELSE table[i]],
     success |-> \E i \in 1..Len(table) :
                    /\ table[i].id = req[p].id
                    /\ table[i].quantity_in_stock + req[p].delta >= 0]

\* what the caller's UPDATE statement makes of the table it runs on
UpdateStatement(table, p) == update_quantity(table, req[p].id, req[p].delta)

\* cursor.execute(UPDATE ...): takes the write lock, reads rowcount
UqExecute(p) ==
    /\ At(p, "checked")
    /\ writer = 0
    /\ writer' = p
    /\ pending' = [pending EXCEPT ![p] = UpdateStatement(components, p)]
    /\ Goto(p, "executed")
    /\ UNCHANGED <<components, circuit_bom, result, calls, ledger,
                   seen, req, reply>>

\* conn.commit(); conn.close()
UqCommit(p) ==
    /\ At(p, "executed")
    /\ components' = pending[p].table
    /\ writer' = 0
    /\ Goto(p, "committed")
    /\ UNCHANGED <<circuit_bom, result, calls, ledger,
                   seen, req, pending, reply>>

\* the route's answer: a failed update, or the stock read back
PatchReply(p) ==
    /\ At(p, "committed")
    /\ reply' = [reply EXCEPT ![p] =
          IF ~pending[p].success
          THEN [op |-> "patch_quantity", status |-> HTTP_SERVER_ERROR,
                new_quantity |-> 0]
          ELSE [op |-> "patch_quantity", status |-> HTTP_OK,
                new_quantity |->
                    get_component(components, req[p].id)[1].quantity_in_stock]]
    /\ Goto(p, "done")
    /\ UNCHANGED <<components, circuit_bom, result, calls, ledger,
                   seen, req, writer, pending>>

InitConc ==
    /\ components = ConcInventory
    /\ circuit_bom = <<>>
    /\ result = NoResult
    /\ calls = 0
    /\ ledger = [i \in 1..Len(components) |-> components[i].quantity_in_stock]
    /\ IdleCallers

NextConc ==
    \E p \in Callers :
        \/ ClientRead(p)
        \/ PatchCheck(p)
        \/ UqExecute(p)
        \/ UqCommit(p)
        \/ PatchReply(p)

SpecConc == InitConc /\ [][NextConc]_vars

Next ==
    \/ AddBomItem
    \/ ValidateBom
    \/ GetShoppingList
    \/ ExportBomCsv
    \/ ExportRoute
    \/ PostBomItem
    \/ GetBom
    \/ GetBomByType
    \/ GetStatistics
    \/ Return

Spec == Init /\ [][Next]_vars

(***************************************************************************)
(* validate_bom while quantity updates commit.  validate_bom reads the BOM *)
(* and then runs one search per BOM item, each on a connection of its own; *)
(* an update_quantity of another caller commits between any two of them.   *)
(* During a validation the ledger holds the inventory states of the store  *)
(* since the validation began.                                             *)
(***************************************************************************)
RECURSIVE AddedBoms(_)
\* the BOM tables that at most n add_bom_item calls on an empty table leave
AddedBoms(n) ==
    IF n = 0 THEN {<<>>}
    ELSE LET before == AddedBoms(n - 1)
         IN before \cup
            {add_bom_item(b, call[1], call[2]).bom : b \in before, call \in AddCalls}

ValidateFrame == UNCHANGED <<circuit_bom, pc, seen, req, writer, pending, reply>>

\* bom_items = self.get_bom(circuit_id)
ValidateBegin ==
    /\ result = NoResult
    /\ \E circuit_id \in CircuitIds :
          result' = [op |-> "validating", circuit_id |-> circuit_id,
                     bom_items |-> get_bom(circuit_bom, circuit_id),
                     entries |-> <<>>]
    /\ ledger' = <<components>>
    /\ UNCHANGED <<components, calls>>
    /\ ValidateFrame

\* one iteration of the loop: search_components and the entry
ValidateSearch ==
    /\ result.op = "validating"
    /\ Len(result.entries) < Len(result.bom_items)
    /\ result' = [result EXCEPT !.entries =
          Append(@, ValidateItem(components,
                                 result.bom_items[Len(result.entries) + 1]))]
    /\ UNCHANGED <<components, calls, ledger>>
    /\ ValidateFrame

\* the return statement
ValidateEnd ==
    /\ result.op = "validating"
    /\ Len(result.entries) = Len(result.bom_items)
    /\ result' = [op |-> "validate_bom", circuit_id |-> result.circuit_id,
                  ret |-> ValidationResult(result.entries)]
    /\ UNCHANGED <<components, calls, ledger>>
    /\ ValidateFrame

\* update_quantity of another caller: the UPDATE and its commit
ConcurrentUpdate ==
    /\ calls < MaxCalls
    /\ \E id \in ComponentIds(components), d \in Deltas \ {0} :
          components' = update_quantity(components, id, d).table
    /\ calls' = calls + 1
    /\ ledger' = IF result.op = "validating"
                 THEN Append(ledger, components')
                 ELSE ledger
    /\ UNCHANGED result
    /\ ValidateFrame

InitValidate ==
    /\ components = ConcInventory
    /\ circuit_bom \in AddedBoms(MaxBom)
    /\ result = NoResult
    /\ calls = 0
    /\ ledger = <<>>
    /\ IdleCallers

NextValidate ==
    \/ ValidateBegin
    \/ ValidateSearch
    \/ ValidateEnd
    \/ ConcurrentUpdate
    \/ Return

SpecValidate == InitValidate /\ [][NextValidate]_vars

(***************************************************************************)
(* add_bom_item on circuit ids and values that hold the delimiter of the   *)
(* item id.                                                                *)
(***************************************************************************)
\* a circuit id that holds the delimiter
CircuitDelimited == <<"A", "_", "resistor">>

\* an item whose value holds the delimiter
ItemValueDelimited ==
    [component_type |-> "resistor",
     component_value |-> <<"resistor", "_", "1", "0", "k">>,
     quantity |-> 1, reference_designator |-> Null,
     is_critical |-> FALSE, confidence_score |-> 100]

IdCalls ==
    AddCalls \cup {<<CircuitDelimited, ItemR10kx1>>,
                   <<<<"A">>, ItemValueDelimited>>,
                   <<<<"B">>, ItemR10kx1>>}

AddAnyBomItem ==
    \E call \in IdCalls :
        LET out == add_bom_item(circuit_bom, call[1], call[2])
        IN /\ Len(out.bom) <= MaxBom
           /\ circuit_bom' = out.bom
           /\ result' = [op |-> "add_bom_item", circuit_id |-> call[1],
                         item |-> call[2], raised |-> out.raised,
                         ret |-> out.success,
                         connections |-> out.connections]
           /\ UNCHANGED components
           /\ Sequential

\* An empty store.
InitIds ==
    /\ components = <<>>
    /\ circuit_bom = <<>>
    /\ result = NoResult
    /\ calls = 0
    /\ ledger = <<>>
    /\ IdleCallers

NextIds ==
    \/ AddAnyBomItem
    \/ Return

SpecIds == InitIds /\ [][NextIds]_vars

(***************************************************************************)
(* The core operations of both services and the importer on one store.     *)
(***************************************************************************)
\* The quantity updates and the BOM rows of one run share the bound on calls.
CoreBudget == calls + Len(circuit_bom) < MaxCalls

NextCore ==
    \/ ListComponents
    \/ SearchComponents
    \/ GetComponent
    \/ GetLowStock
    \/ CoreBudget /\ UpdateQuantity
    \/ InventoryStatistics
    \/ GetBom
    \/ CoreBudget /\ AddBomItem
    \/ ValidateBom
    \/ GetShoppingList
    \/ ExportBomCsv
    \/ ImportComponents
    \/ Return

SpecCore == Init /\ [][NextCore]_vars

(***************************************************************************)
(* Properties.                                                             *)
(***************************************************************************)
BomRowsOf(circuit_id) ==
    {i \in 1..Len(circuit_bom) : circuit_bom[i].circuit_id = circuit_id}

\* C1: validate returns completeness = available_count / total_items for a
\* circuit with items, and exactly 0, without an error, for a circuit whose
\* BOM is empty.
C1_Completeness ==
    result.op = "validate_bom" =>
        LET r == result.ret
            n == Cardinality(BomRowsOf(result.circuit_id))
        IN /\ result.raised = ""
           /\ r.total_items = n
           /\ r.completeness[2] # 0
           /\ n > 0 => r.completeness[1] * r.total_items
                          = r.available_count * r.completeness[2]
           /\ n = 0 => r.completeness[1] = 0

C1_Witness ==
    /\ result.op = "validate_bom"
    /\ result.ret.total_items = 2
    /\ result.ret.available_count = 1

\* the verdict on one BOM item, from the search results of the item's type
TopHitSuffices(hits, item) ==
    hits # <<>> /\ hits[1].quantity_in_stock >= item.quantity

ListedIn(entries, item) ==
    \E k \in 1..Len(entries) : entries[k].bom_item = item

MatchedIff(ret, item, ok) ==
    (ListedIn(ret.matches, item) <=> ok) /\ (ListedIn(ret.missing, item) <=> ~ok)

\* C2: validate lists a BOM item as a match exactly when the search results
\* for its value, restricted to its type, are not empty and the first of them
\* has at least the item's quantity in stock; otherwise it lists it as missing.
C2_MatchIffTopHit ==
    result.op = "validate_bom" =>
        \A i \in BomRowsOf(result.circuit_id) :
            MatchedIff(result.ret, circuit_bom[i],
                TopHitSuffices(
                    SelectSeq(search_components(components,
                                                circuit_bom[i].component_value),
                              LAMBDA c : c.type = circuit_bom[i].component_type),
                    circuit_bom[i]))

\* a match on exactly the quantity needed, beside a miss on a component
\* that is in the inventory with too little stock
C2_Witness ==
    /\ result.op = "validate_bom"
    /\ \E k \in 1..Len(result.ret.matches) :
          result.ret.matches[k].quantity_available
              = result.ret.matches[k].quantity_needed
    /\ \E k \in 1..Len(result.ret.missing) :
          ~IsNull(result.ret.missing[k].component)

SameLine(entry, bom_item) ==
    /\ entry.type = bom_item.component_type
    /\ entry.value = bom_item.component_value
    /\ entry.quantity = bom_item.quantity

ShoppingAgrees(ret, v) ==
    /\ ret.total_missing = v.missing_count
    /\ Len(ret.missing_items) = Len(v.missing)
    /\ \A k \in 1..Len(v.missing) :
           SameLine(ret.missing_items[k], v.missing[k].bom_item)
    /\ \A k \in 1..Len(v.matches), j \in 1..Len(ret.missing_items) :
           ~SameLine(ret.missing_items[j], v.matches[k].bom_item)

\* C3: on one store state the shopping list has one entry for each item
\* validate lists as missing, in the same order, none for an item validate
\* lists as a match, and total_missing equal to validate's missing_count.
C3_ShoppingListIsMissing ==
    result.op = "get_shopping_list" =>
        ShoppingAgrees(result.ret,
                       validate_bom(circuit_bom, components, result.circuit_id))

C3_Witness ==
    /\ result.op = "get_shopping_list"
    /\ result.ret.total_missing = 1
    /\ validate_bom(circuit_bom, components, result.circuit_id).available_count = 1

\* C4: after any sequence of update_quantity calls every component's stock
\* is its initial stock plus the deltas of the calls on its id, and every
\* call on an id of the table reports success.
C4_StockIsInitialPlusDeltas ==
    /\ Len(ledger) = Len(components)
    /\ \A i \in 1..Len(components) : components[i].quantity_in_stock = ledger[i]
    /\ (result.op = "update_quantity" /\ HasId(components, result.component_id))
           => (result.raised = "" /\ result.ret = TRUE)

C4_Witness ==
    /\ result.op = "update_quantity"
    /\ result.ret = TRUE
    /\ result.delta < 0
    /\ calls >= 2
    /\ Len(components) = 2
    /\ \E i \in 1..Len(components) : components[i].quantity_in_stock < 0

\* C5: update_quantity with an id that has no row returns false without
\* raising, creates no row and changes no row; the route answers the same
\* request with 404 and leaves the store as it was.
C5_UnknownIdIsNoOp ==
    [][(/\ result'.op \in {"update_quantity", "patch_quantity"}
        /\ result = NoResult
        /\ ~HasId(components, result'.component_id))
       => /\ components' = components
          /\ result'.op = "update_quantity"
                => (result'.raised = "" /\ result'.ret = FALSE)
          /\ result'.op = "patch_quantity"
                => result'.status = HTTP_NOT_FOUND]_vars

C5_Witness ==
    /\ result.op = "update_quantity"
    /\ result.component_id = UnknownId
    /\ result.delta # 0
    /\ components # <<>>

RECURSIVE DeltasOn(_, _)
\* the sum of the deltas of the callers 1..n whose update on id succeeded
DeltasOn(id, n) ==
    IF n = 0 THEN 0
    ELSE DeltasOn(id, n - 1)
         + (IF req[n].id = id /\ reply[n].op = "patch_quantity"
               /\ reply[n].status = HTTP_OK
            THEN req[n].delta ELSE 0)

AllDone == \A p \in Callers : pc[p] = "done"

\* C6: once every concurrent update_quantity call has completed, each
\* component's stock is its initial stock plus the sum of all the deltas
\* sent for it.
C6_NoLostUpdate ==
    AllDone =>
        \A i \in 1..Len(components) :
            components[i].quantity_in_stock
                = ledger[i] + DeltasOn(components[i].id, NumCallers)

C6_Witness ==
    /\ AllDone
    /\ \A p \in Callers : req[p].id = req[1].id /\ req[p].delta # 0
    /\ \A p \in Callers : reply[p].status = HTTP_OK

\* C7: no sequence of update_quantity calls on a store whose stocks are all
\* non-negative reaches a state with a negative stock.
C7_StockNeverNegative ==
    \A i \in 1..Len(components) : components[i].quantity_in_stock >= 0

\* C8: an update adds its delta to the stock the table holds when the
\* statement runs, whatever stock its caller read before; so callers that each
\* stay within the stock they read can together take the stock below zero.
C8_UpdateIgnoresStockRead ==
    [][\A p \in Callers :
          (pc[p] = "executed" /\ pc'[p] = "committed")
              => StockOf(components', req[p].id)
                     = StockOf(components, req[p].id) + req[p].delta]_vars

C8_Witness ==
    /\ AllDone
    /\ \A p \in Callers :
          reply[p].status = HTTP_OK /\ seen[p] + req[p].delta >= 0
    /\ \A i \in 1..Len(ledger) : ledger[i] >= 0
    /\ \E i \in 1..Len(components) : components[i].quantity_in_stock < 0

\* C9: add_bom_item for an item whose computed id is already in circuit_bom
\* returns false, does not raise, and leaves circuit_bom as it was.
C9_DuplicateAddReturnsFalse ==
    [][(/\ result'.op = "add_bom_item"
        /\ result = NoResult
        /\ HasId(circuit_bom, bom_item_id(result'.circuit_id, result'.item)))
       => /\ result'.raised = ""
          /\ result'.ret = FALSE
          /\ circuit_bom' = circuit_bom]_vars

ExportedLines(text) == Count(text, NL) + 1

\* C10: export_bom_csv yields the header and one line per BOM item, n + 1
\* lines for n items.
C10_ExportLineCount ==
    result.op = "export_bom_csv" =>
        ExportedLines(result.ret) = Len(get_bom(circuit_bom, result.circuit_id)) + 1

\* the text holds part as a run of consecutive characters
Contains(text, part) ==
    \E k \in 0..(Len(text) - Len(part)) :
        \A j \in 1..Len(part) : text[k + j] = part[j]

\* C11: the export route answers 200, with a text holding the header and
\* every item's value, for every circuit with at least one BOM item, and 404
\* only for a circuit without BOM items.
C11_ExportRouteStatus ==
    result.op = "export_route" =>
        /\ BomRowsOf(result.circuit_id) # {}
               => /\ result.status = HTTP_OK
                  /\ Contains(result.content, CsvHeader)
                  /\ \A i \in BomRowsOf(result.circuit_id) :
                         Contains(result.content, circuit_bom[i].component_value)
        /\ result.status = HTTP_NOT_FOUND => BomRowsOf(result.circuit_id) = {}

WithinBounds(quantity, score) == quantity >= 1 /\ score >= 0 /\ score <= 100

\* C12: every row of circuit_bom has quantity >= 1 and confidence_score in
\* [0,1], and an add request outside these bounds is rejected before the
\* route function runs and stores nothing.
C12_AddRequestBounds ==
    /\ [](\A i \in 1..Len(circuit_bom) :
             WithinBounds(circuit_bom[i].quantity, circuit_bom[i].confidence_score))
    /\ [][(/\ result'.op = "post_bom_item"
            /\ result = NoResult
            /\ ~WithinBounds(result'.item.quantity, result'.item.confidence_score))
           => (~result'.accepted /\ circuit_bom' = circuit_bom)]_vars

C12_Witness ==
    /\ result.op = "post_bom_item"
    /\ ~result.accepted
    /\ result.item.quantity = 0
    /\ \E i \in 1..Len(circuit_bom) : circuit_bom[i].quantity = 1

\* C13: a list request whose type filter is not an enumerated component type
\* is answered with 400, never with 500, and the inventory service is not
\* called for it.
C13_BadTypeIs400 ==
    (/\ result.op = "list_components_route"
     /\ ~IsNull(result.type)
     /\ result.type[1] # ""
     /\ result.type[1] \notin ComponentTypes)
        => (result.status = HTTP_BAD_REQUEST /\ ~result.service_called)

ContainsOpt(o, part) == ~IsNull(o) /\ Contains(o[1], part)

HoldsQuery(c, query) ==
    \/ ContainsOpt(c.value, query)
    \/ Contains(c.name, query)
    \/ ContainsOpt(c.part_number, query)

\* C14: search returns exactly the components whose value, name or part
\* number holds the query as a literal substring.
C14_SearchIsLiteralSubstring ==
    result.op = "search_components" =>
        \A i \in 1..Len(components) :
            (\E k \in 1..Len(result.ret) : result.ret[k] = components[i])
                <=> HoldsQuery(components[i], result.query)

\* text starts with the query, by the matching the search applies (LIKE)
PrefixMatch(text, query) == LikeMatch(query \o <<"%">>, text)

\* the tier of the claim: equal value, value prefix, name prefix, the rest
ClaimedTier(c, query) ==
    IF ~IsNull(c.value) /\ c.value[1] = query THEN 1
    ELSE IF ~IsNull(c.value) /\ PrefixMatch(c.value[1], query) THEN 2
    ELSE IF PrefixMatch(c.name, query) THEN 3
    ELSE 4

FileIds(file) == {transform_row(file[i]).id : i \in 1..Len(file)}

EmptyAnswer(op) ==
    CASE op = "get_bom" -> <<>>
      [] op = "get_bom_by_type" -> <<>>
      [] op = "validate_bom" ->
            [raised |-> "", total_items |-> 0, available_count |-> 0,
             missing_count |-> 0, completeness |-> <<0, 1>>,
             matches |-> <<>>, missing |-> <<>>]
      [] op = "get_shopping_list" ->
            [raised |-> "", missing_items |-> <<>>, total_missing |-> 0]
      [] op = "get_statistics" ->
            [total_items |-> 0, by_type |-> <<>>, critical_count |-> 0,
             low_confidence_count |-> 0]

ReadOps ==
    {"get_bom", "get_bom_by_type", "validate_bom", "get_shopping_list",
     "get_statistics"}

\* C18: for a circuit id that has no BOM rows, whether the circuit is one that
\* gets items or one that is unknown, getBOM, getBOMByType, validate,
\* shoppingList and statistics succeed with empty collections and zero counts
\* (total 0, completeness 0), the same answer for every such circuit id.
C18_EmptyBomReads ==
    (result.op \in ReadOps /\ BomRowsOf(result.circuit_id) = {}) =>
        result.ret = EmptyAnswer(result.op)

C18_Witness ==
    /\ result.op = "get_statistics"
    /\ result.circuit_id = UnknownCircuit
    /\ circuit_bom # <<>>
    /\ result.ret.total_items = 0

\* the positions of the items of one type in a BOM
PositionsOf(bom_items, type) ==
    {i \in 1..Len(bom_items) : bom_items[i].component_type = type}

FirstOf(bom_items, type) ==
    CHOOSE i \in PositionsOf(bom_items, type) :
        \A j \in PositionsOf(bom_items, type) : i <= j

RECURSIVE SumSizes(_)
SumSizes(by_type) ==
    IF by_type = <<>> THEN 0
    ELSE Len(by_type[1].items) + SumSizes(Tail(by_type))

PartitionOf(by_type, bom_items) ==
    /\ \A k \in 1..Len(by_type) :
          /\ by_type[k].items # <<>>
          /\ by_type[k].items =
                SelectSeq(bom_items,
                          LAMBDA b : b.component_type = by_type[k].key)
    /\ \A i \in 1..Len(bom_items) :
          Cardinality({k \in 1..Len(by_type) :
                          by_type[k].key = bom_items[i].component_type}) = 1
    /\ \A k, l \in 1..Len(by_type) :
          k < l => FirstOf(bom_items, by_type[k].key)
                      < FirstOf(bom_items, by_type[l].key)
    /\ SumSizes(by_type) = Len(bom_items)

\* C19: getBOMByType partitions getBOM: every item is in exactly one group,
\* the one keyed by its component_type; the keys are in the order of their
\* first occurrence in getBOM; a group keeps getBOM's order; no group is
\* empty; the group sizes add up to the length of getBOM.
C19_ByTypePartitions ==
    result.op = "get_bom_by_type" =>
        PartitionOf(result.ret, get_bom(circuit_bom, result.circuit_id))

C19_Witness ==
    /\ result.op = "get_bom_by_type"
    /\ Len(result.ret) = 2
    /\ result.ret[1].key # result.ret[2].key

RECURSIVE SumCounts(_)
SumCounts(by_type) ==
    IF by_type = <<>> THEN 0 ELSE by_type[1][2] + SumCounts(Tail(by_type))

StatisticsOf(stats, bom_items) ==
    /\ stats.total_items = Len(bom_items)
    /\ stats.total_items = SumCounts(stats.by_type)
    /\ stats.critical_count =
          Cardinality({i \in 1..Len(bom_items) : bom_items[i].is_critical})
    /\ stats.low_confidence_count =
          Cardinality({i \in 1..Len(bom_items) :
                          bom_items[i].confidence_score < LowConfidenceLimit})

\* C20: statistics' total_items is the length of getBOM and the sum of the
\* per-type counts; critical_count is the number of the circuit's items with
\* is_critical; low_confidence_count is the number with confidence strictly
\* below 0.7 (0.7 itself is not counted); items of other circuits are never
\* counted.
C20_Statistics ==
    result.op = "get_statistics" =>
        StatisticsOf(result.ret, get_bom(circuit_bom, result.circuit_id))

C20_Witness ==
    /\ result.op = "get_statistics"
    /\ result.ret.total_items = 1
    /\ result.ret.low_confidence_count = 0
    /\ \E i \in 1..Len(circuit_bom) :
          /\ circuit_bom[i].circuit_id = result.circuit_id
          /\ circuit_bom[i].confidence_score = 70
    /\ \E i \in 1..Len(circuit_bom) :
          circuit_bom[i].circuit_id # result.circuit_id

RECURSIVE SumTypes(_)
SumTypes(by_type) ==
    IF by_type = <<>> THEN 0 ELSE by_type[1].types + SumTypes(Tail(by_type))

RECURSIVE SumUnits(_)
SumUnits(by_type) ==
    IF by_type = <<>> THEN 0 ELSE by_type[1].units + SumUnits(Tail(by_type))

InventoryStatisticsOf(stats, table) ==
    /\ stats.total_types = Len(table)
    /\ stats.total_units = SumStock(table)
    /\ stats.total_types = SumTypes(stats.by_type)
    /\ stats.total_units = SumUnits(stats.by_type)
    /\ stats.low_stock_count = Len(get_low_stock(table))
    /\ stats.out_of_stock_count =
          Cardinality({i \in 1..Len(table) : table[i].quantity_in_stock = 0})
    /\ table = <<>> =>
          stats = [total_types |-> 0, total_units |-> 0, by_type |-> <<>>,
                   low_stock_count |-> 0, out_of_stock_count |-> 0]

\* C21: the inventory statistics agree with the store and with lowStock:
\* total_types is the number of component rows, total_units the sum of
\* quantity_in_stock, each global total the sum of its per-type values,
\* low_stock_count the number of components lowStock returns and
\* out_of_stock_count the number of components with quantity_in_stock = 0;
\* an empty inventory gives all zeros.  lowStock returns the components with
\* quantity_in_stock <= minimum_quantity.
C21_InventoryStatistics ==
    /\ result.op = "inventory_statistics" =>
          InventoryStatisticsOf(result.ret, components)
    /\ result.op = "get_low_stock" =>
          /\ \A i \in 1..Len(result.ret) :
                result.ret[i].quantity_in_stock <= result.ret[i].minimum_quantity
          /\ Len(result.ret) =
                Cardinality({i \in 1..Len(components) :
                    components[i].quantity_in_stock
                        <= components[i].minimum_quantity})

C21_Witness ==
    /\ result.op = "inventory_statistics"
    /\ Len(result.ret.by_type) = 2
    /\ result.ret.low_stock_count = 1
    /\ result.ret.out_of_stock_count = 0
    /\ calls > 0

\* the component but for the column a quantity update writes
SaveQuantity(c) == [c EXCEPT !.quantity_in_stock = 0]

ComponentsKept ==
    /\ Len(components') >= Len(components)
    /\ \A i \in 1..Len(components) :
          /\ SaveQuantity(components'[i]) = SaveQuantity(components[i])
          /\ components'[i] # components[i] => result'.op = "update_quantity"

BomKept ==
    /\ Len(circuit_bom') >= Len(circuit_bom)
    /\ \A i \in 1..Len(circuit_bom) : circuit_bom'[i] = circuit_bom[i]

\* C22: across any sequence of the core operations (list, search, get,
\* lowStock, updateQuantity, statistics, getBOM, addItem, validate,
\* shoppingList, exportCSV, import) no component row and no BOM row is ever
\* deleted, an existing component changes only in quantity_in_stock (and
\* updated_at) and only through updateQuantity, and an existing BOM row never
\* changes.
C22_RowsAreKept == [][ComponentsKept /\ BomKept]_vars

C22_Witness ==
    /\ result.op = "update_quantity"
    /\ result.ret
    /\ result.delta # 0
    /\ circuit_bom # <<>>
    /\ Len(components) = MaxComponents

\* the stock a caller's own update left: the stock right before it plus delta
OwnUpdateStock(p) == StockOf(pending[p].table, req[p].id)

\* C24: the new_quantity the update-quantity endpoint returns for a request
\* with delta d is the component's stock immediately before that request's
\* update plus d, also when other update-quantity requests on the same
\* component are interleaved with its get / update / get steps.
C24_ReplyIsOwnUpdate ==
    \A p \in Callers :
        (pc[p] = "done" /\ reply[p].status = HTTP_OK) =>
            reply[p].new_quantity = OwnUpdateStock(p)

\* C23: validate run concurrently with updateQuantity calls returns a result
\* that equals validate evaluated on a single inventory state that existed at
\* some instant during the call: the stocks it reports for different BOM
\* items are never taken from different store states.
C23_ValidateReadsOneState ==
    result.op = "validate_bom" =>
        \E k \in 1..Len(ledger) :
            result.ret = validate_bom(circuit_bom, ledger[k], result.circuit_id)

\* C25: every service operation releases the connection it opened before it
\* returns or raises, so that no connection is open when no operation is in
\* progress; this includes add_bom_item when its insert fails on a duplicate
\* id.
C25_ConnectionsReleased ==
    result.op = "add_bom_item" => result.connections = 0

\* C26: every row stored in circuit_bom through the add-BOM-item operation has
\* a component_type that is one of the eleven enumerated component types: an
\* add request whose component_type is outside the enumeration is rejected
\* before the route function runs and stores nothing.
C26_AddRequestType ==
    /\ [](\A i \in 1..Len(circuit_bom) :
             circuit_bom[i].component_type \in ComponentTypes)
    /\ [][(/\ result'.op = "post_bom_item"
            /\ result = NoResult
            /\ result'.item.component_type \notin ComponentTypes)
           => (~result'.accepted /\ circuit_bom' = circuit_bom)]_vars

\* the BOM items of a list of validation entries
ItemsOf(entries) == [k \in 1..Len(entries) |-> entries[k].bom_item]

\* the items of a BOM that a list holds, in the BOM's order
KeptOf(bom_items, items) ==
    SelectSeq(bom_items, LAMBDA b : b \in Range(items))

Occurrences(items, b) == Cardinality({k \in 1..Len(items) : items[k] = b})

ValidatePartitions(ret, bom_items) ==
    /\ \A i \in 1..Len(bom_items) :
          Occurrences(ItemsOf(ret.matches), bom_items[i])
              + Occurrences(ItemsOf(ret.missing), bom_items[i]) = 1
    /\ ItemsOf(ret.matches) = KeptOf(bom_items, ItemsOf(ret.matches))
    /\ ItemsOf(ret.missing) = KeptOf(bom_items, ItemsOf(ret.missing))
    /\ ret.total_items = Len(bom_items)
    /\ ret.total_items = ret.available_count + ret.missing_count
    /\ ret.available_count = Len(ret.matches)
    /\ ret.missing_count = Len(ret.missing)
    /\ \A k \in 1..Len(ret.matches) :
          ret.matches[k].quantity_available >= ret.matches[k].quantity_needed
    /\ \A k \in 1..Len(ret.missing) :
          \/ /\ IsNull(ret.missing[k].component)
             /\ ret.missing[k].quantity_available = 0
          \/ /\ ~IsNull(ret.missing[k].component)
             /\ ret.missing[k].quantity_available
                    < ret.missing[k].quantity_needed

\* C27: validate partitions the BOM: each item getBOM returns is exactly once
\* in matches or in missing and never in both, matches and missing keep
\* getBOM's order, total_items = available_count + missing_count with
\* available_count = |matches| and missing_count = |missing|, every match has
\* quantity_available >= quantity_needed, and every miss has either no
\* component and quantity_available 0 or a component with quantity_available
\* below quantity_needed.
C27_ValidatePartitions ==
    result.op = "validate_bom" =>
        ValidatePartitions(result.ret, get_bom(circuit_bom, result.circuit_id))

C27_Witness ==
    /\ result.op = "validate_bom"
    /\ Len(result.ret.matches) = 1
    /\ Len(result.ret.missing) = 1
    /\ ~IsNull(result.ret.missing[1].component)
    /\ result.ret.missing[1].quantity_available > 0

\* the inventory holds a component of the item's type and exact value with
\* enough stock for the item
Suppliable(table, item) ==
    \E i \in 1..Len(table) :
        /\ table[i].type = item.component_type
        /\ table[i].value = Some(item.component_value)
        /\ table[i].quantity_in_stock >= item.quantity

SuppliableAreMatched(ret, table, bom_items) ==
    \A i \in 1..Len(bom_items) :
        Suppliable(table, bom_items[i]) =>
            bom_items[i] \in Range(ItemsOf(ret.matches))

\* C28: if the inventory holds a component whose type is a BOM item's
\* component_type, whose value is the item's component_value exactly and whose
\* quantity_in_stock is at least the item's quantity, validate records the
\* item as a match, also when other components of the same type and value
\* exist with less stock.
C28_SuppliableIsMatched ==
    result.op = "validate_bom" =>
        SuppliableAreMatched(result.ret, components,
                             get_bom(circuit_bom, result.circuit_id))

\* the quantity the matches that selected one component need together
RECURSIVE NeededFrom(_, _)
NeededFrom(matches, id) ==
    IF matches = <<>> THEN 0
    ELSE (IF matches[1].component[1].id = id
          THEN matches[1].quantity_needed ELSE 0)
         + NeededFrom(Tail(matches), id)

\* C29: when validate reports every item of a non-empty BOM as a match
\* (completeness 1), the inventory can supply all lines together: for each
\* component, the quantity_needed of the matches that selected it add up to
\* at most its quantity_in_stock.
C29_CompleteIsSuppliable ==
    (/\ result.op = "validate_bom"
     /\ result.ret.total_items > 0
     /\ result.ret.available_count = result.ret.total_items) =>
        \A i \in 1..Len(components) :
            NeededFrom(result.ret.matches, components[i].id)
                <= components[i].quantity_in_stock

SameContent(row, circuit_id, item) ==
    /\ row.circuit_id = circuit_id
    /\ row.component_type = item.component_type
    /\ row.component_value = item.component_value
    /\ row.quantity = item.quantity

\* C30: the id add_bom_item computes is injective on the content tuple: two
\* calls produce the same id only if they have the same circuit id, component
\* type, component value and quantity; an item added to one circuit never
\* collides with, and is never rejected because of, an item of another
\* circuit.
C30_IdIsInjective ==
    [][(result'.op = "add_bom_item" /\ result = NoResult) =>
          \A i \in 1..Len(circuit_bom) :
              circuit_bom[i].id = bom_item_id(result'.circuit_id, result'.item)
                  => SameContent(circuit_bom[i], result'.circuit_id, result'.item)]_vars

====
